---- MODULE Spec2Model ----
(***************************************************************************)
(* One run of scripts/ovpn_monitor.py: the module-level public-IP lookup,  *)
(* then send_data(): phase 1 gathers five metrics, phase 2 POSTs each of   *)
(* them to its endpoint.                                                   *)
(*                                                                         *)
(* Text (str) values are sequences of one-character strings.  Values that  *)
(* Python holds as floats rounded to two decimals (round(x, 2)) are held   *)
(* as integers counting hundredths: 37.5 is 3750.  The answers of the      *)
(* outside world (command output, file contents, HTTP outcome) are chosen  *)
(* nondeterministically from the sets below.                               *)
(***************************************************************************)
EXTENDS Integers, Sequences, FiniteSets, TLC

VARIABLES
    pc,         \* position in the script
    result,     \* module-level `result` of the IP lookup (line 23)
    ipAddress,  \* module-level ipAddress (lines 24-29)
    frame,      \* locals of the helper being executed, and its return value
    bound,      \* names of the metric locals of send_data bound so far
    user_count, cpu_val, svc_status, vn_stats, dl_mbps,   \* locals of send_data
    sent,       \* the requests.post calls made so far, in order
    exit_code   \* -1 while running, then the exit status of the process

vars == <<pc, result, ipAddress, frame, bound, user_count, cpu_val,
          svc_status, vn_stats, dl_mbps, sent, exit_code>>

gathered == <<ipAddress, user_count, cpu_val, svc_status, dl_mbps, vn_stats>>

----------------------------------------------------------------------------
(* Bounds *)

MaxOutLen  == 3    \* longest output of the IP lookup command
MaxEntries == 2    \* longest "day" / "month" list in vnstat's JSON

----------------------------------------------------------------------------
(* Text *)

Chars(n) == UNION {[1..k -> {" ", "7"}] : k \in 0..n}

Whitespace == {" ", "\t", "\n", "\r", "\f"}

RECURSIVE lstrip(_)
lstrip(s) == IF s = <<>> THEN s
             ELSE IF Head(s) \in Whitespace THEN lstrip(Tail(s)) ELSE s

RECURSIVE rstrip(_)
rstrip(s) == IF s = <<>> THEN s
             ELSE IF s[Len(s)] \in Whitespace
                  THEN rstrip(SubSeq(s, 1, Len(s) - 1)) ELSE s

\* variant: only leading whitespace is removed
strip_lstrip_only(s) == lstrip(s)

\* str.strip()
strip(s) == rstrip(lstrip(s))

Digits == <<"0", "1", "2", "3", "4", "5", "6", "7", "8", "9">>

DigitValue(c) == (CHOOSE i \in 1..10 : Digits[i] = c) - 1

IsDigit(c) == \E i \in 1..10 : Digits[i] = c

\* str(n) for an int n >= 0
RECURSIVE NatStr(_)
NatStr(n) == IF n < 10 THEN <<Digits[n + 1]>>
             ELSE NatStr(n \div 10) \o <<Digits[(n % 10) + 1]>>

\* variant: one fractional digit only
FloatStr_OneDecimal(h) ==
    LET a == IF h < 0 THEN 0 - h ELSE h
    IN  (IF h < 0 THEN <<"-">> ELSE <<>>)
        \o NatStr(a \div 100) \o <<".", Digits[((a % 100) \div 10) + 1]>>

\* str(x) for a float x = h / 100 (the f-string conversion of a rounded float):
\* at least one and at most two fractional digits
FloatStr(h) ==
    LET a    == IF h < 0 THEN 0 - h ELSE h
        frac == a % 100
    IN  (IF h < 0 THEN <<"-">> ELSE <<>>)
        \o NatStr(a \div 100) \o <<".">>
        \o (IF frac % 10 = 0 THEN <<Digits[(frac \div 10) + 1]>>
            ELSE <<Digits[(frac \div 10) + 1], Digits[(frac % 10) + 1]>>)

\* int(text) of a decimal literal: surrounding whitespace is ignored,
\* anything that is not a non-empty digit string raises ValueError
RECURSIVE DigitsValue(_)
DigitsValue(s) == IF s = <<>> THEN 0
                  ELSE 10 * DigitsValue(SubSeq(s, 1, Len(s) - 1))
                       + DigitValue(s[Len(s)])

int(text) ==
    LET t == strip(text)
    IN  IF t # <<>> /\ \A i \in 1..Len(t) : IsDigit(t[i])
        THEN [raised |-> "none", val |-> DigitsValue(t)]
        ELSE [raised |-> "ValueError", val |-> 0]

\* round(n / d) to the nearest integer, ties to the even one (d > 0)
RoundHalfEven(n, d) ==
    LET q == n \div d
        r == n % d
    IN  IF 2 * r < d THEN q
        ELSE IF 2 * r > d THEN q + 1
        ELSE IF q % 2 = 0 THEN q ELSE q + 1

----------------------------------------------------------------------------
(* Configuration *)

API_BASE_URL == "https://papi.fusionsai.net/api"
PLATFORM     == <<"a", "n", "d", "r", "o", "i", "d">>
OPENVPN      == <<"o", "p", "e", "n", "v", "p", "n">>
FALLBACK_IP  == <<"0", ".", "0", ".", "0", ".", "0">>

NoFrame == [fn |-> "none"]

Init ==
    /\ pc = "fetch_ip"
    /\ result = [run |-> "pending", stdout |-> <<>>]
    /\ ipAddress = <<>>
    /\ frame = NoFrame
    /\ bound = {}
    /\ user_count = <<>>
    /\ cpu_val = 0
    /\ svc_status = <<>>
    /\ vn_stats = [daily |-> 0, weekly |-> 0, monthly |-> 0]
    /\ dl_mbps = 0
    /\ sent = <<>>
    /\ exit_code = -1

----------------------------------------------------------------------------
(* Module level: fetch the public IP (lines 21-29) *)

FetchPublicIp ==
    /\ pc = "fetch_ip"
    /\ \/ \E out \in Chars(MaxOutLen) :
            /\ result' = [run |-> "completed", stdout |-> out]
            /\ ipAddress' = IF strip(out) = <<>> THEN FALLBACK_IP ELSE strip(out)
       \/ /\ result' = [run |-> "raised", stdout |-> <<>>]
          /\ ipAddress' = FALLBACK_IP
    /\ pc' = "get_users"
    /\ UNCHANGED <<frame, bound, user_count, cpu_val, svc_status, vn_stats,
                   dl_mbps, sent, exit_code>>

----------------------------------------------------------------------------
(* Uncaught exception: traceback, exit status 1 *)

Crash(fn, exc) ==
    /\ frame' = [fn |-> fn, uncaught |-> exc]
    /\ pc' = "crashed"
    /\ exit_code' = 1

----------------------------------------------------------------------------
(* get_ovpn_users (lines 92-107) *)

WcOutputs == {<<>>, <<"0", "\n">>, <<"3", "\n">>}

ShellRuns(outputs) ==
    {[raised |-> FALSE, stdout |-> o] : o \in outputs}
        \cup {[raised |-> TRUE, stdout |-> <<>>]}

get_ovpn_users(run) ==
    IF run.raised THEN <<"0">>
    ELSE LET active_clients == strip(run.stdout)
         IN  IF active_clients # <<>> THEN active_clients ELSE <<"0">>

CallGetOvpnUsers ==
    /\ pc = "get_users"
    /\ \E run \in ShellRuns(WcOutputs) :
          frame' = [fn |-> "get_ovpn_users", run |-> run,
                    ret |-> get_ovpn_users(run)]
    /\ pc' = "bind_users"
    /\ UNCHANGED <<result, ipAddress, bound, user_count, cpu_val, svc_status,
                   vn_stats, dl_mbps, sent, exit_code>>

\* variant: the user count is POSTed as soon as it is gathered
BindUserCount_ThenSend ==
    /\ pc = "bind_users"
    /\ user_count' = frame.ret
    /\ bound' = bound \cup {"user_count"}
    /\ frame' = NoFrame
    /\ pc' = "send_users"
    /\ UNCHANGED <<result, ipAddress, cpu_val, svc_status, vn_stats, dl_mbps,
                   sent, exit_code>>

BindUserCount ==
    /\ pc = "bind_users"
    /\ user_count' = frame.ret
    /\ bound' = bound \cup {"user_count"}
    /\ frame' = NoFrame
    /\ pc' = "get_cpu"
    /\ UNCHANGED <<result, ipAddress, cpu_val, svc_status, vn_stats, dl_mbps,
                   sent, exit_code>>

----------------------------------------------------------------------------
(* get_cpu_usage_15min (lines 109-115) *)

\* os.getloadavg() raising, or load15 (in hundredths) with os.cpu_count()
\* (0 stands for None)
LoadReadings ==
    {[raised |-> TRUE, load15 |-> 0, cores |-> 0],
     [raised |-> FALSE, load15 |-> 150, cores |-> 0],
     [raised |-> FALSE, load15 |-> 100, cores |-> 3]}

get_cpu_usage_15min(os) ==
    IF os.raised THEN 0
    ELSE LET total_cores == IF os.cores # 0 THEN os.cores ELSE 1
         IN  RoundHalfEven(os.load15 * 100, total_cores)

CallGetCpuUsage ==
    /\ pc = "get_cpu"
    /\ \E os \in LoadReadings :
          frame' = [fn |-> "get_cpu_usage_15min", os |-> os,
                    ret |-> get_cpu_usage_15min(os)]
    /\ pc' = "bind_cpu"
    /\ UNCHANGED <<result, ipAddress, bound, user_count, cpu_val, svc_status,
                   vn_stats, dl_mbps, sent, exit_code>>

BindCpuVal ==
    /\ pc = "bind_cpu"
    /\ cpu_val' = frame.ret
    /\ bound' = bound \cup {"cpu_val"}
    /\ frame' = NoFrame
    /\ pc' = "get_status"
    /\ UNCHANGED <<result, ipAddress, user_count, svc_status, vn_stats,
                   dl_mbps, sent, exit_code>>

----------------------------------------------------------------------------
(* check_service_status (lines 117-125) *)

ACTIVE == <<"a", "c", "t", "i", "v", "e">>

SystemctlOutputs ==
    {ACTIVE \o <<"\n">>,
     <<"i", "n">> \o ACTIVE \o <<"\n">>,
     <<"f", "a", "i", "l", "e", "d", "\n">>,
     <<"a", "c", "t", "i", "v", "a", "t", "i", "n", "g", "\n">>,
     <<>>}

\* variant: the output is compared without strip()
check_service_status_unstripped(run) ==
    IF run.raised THEN <<"0">>
    ELSE IF run.stdout = ACTIVE THEN <<"1">> ELSE <<"0">>

check_service_status(run) ==
    IF run.raised THEN <<"0">>
    ELSE IF strip(run.stdout) = ACTIVE THEN <<"1">> ELSE <<"0">>

CallCheckServiceStatus ==
    /\ pc = "get_status"
    /\ \E run \in ShellRuns(SystemctlOutputs) :
          frame' = [fn |-> "check_service_status", run |-> run,
                    ret |-> check_service_status(run)]
    /\ pc' = "bind_status"
    /\ UNCHANGED <<result, ipAddress, bound, user_count, cpu_val, svc_status,
                   vn_stats, dl_mbps, sent, exit_code>>

BindSvcStatus ==
    /\ pc = "bind_status"
    /\ svc_status' = frame.ret
    /\ bound' = bound \cup {"svc_status"}
    /\ frame' = NoFrame
    /\ pc' = "get_vnstat"
    /\ UNCHANGED <<result, ipAddress, user_count, cpu_val, vn_stats, dl_mbps,
                   sent, exit_code>>

----------------------------------------------------------------------------
(* get_vnstat_usage (lines 53-90) *)

GIB == 1073741824

\* round(b / 1073741824, 2) in hundredths: b * 100 / 2^30 = b * 25 / 2^28
RoundGiB(b) == RoundHalfEven(b * 25, GIB \div 4)

\* a day or month entry of vnstat's JSON: complete, or without its "rx" key
TrafficEntries == {[rx |-> 8388608, tx |-> 8388608], [tx |-> 8388608]}

TrafficLists == UNION {[1..k -> TrafficEntries] : k \in 0..MaxEntries}

\* what `which vnstat` and `vnstat --json` answer
VnstatAnswers ==
    {[status |-> st, day |-> <<>>, month |-> <<>>] :
        st \in {"which_raises", "not_installed", "run_raises", "nonzero_rc",
                "empty_stdout", "bad_json", "no_interfaces"}}
    \cup {[status |-> "data", day |-> d, month |-> m] :
            d \in TrafficLists, m \in TrafficLists}

HasRxTx(e) == {"rx", "tx"} \subseteq DOMAIN e

RECURSIVE SumRxTx(_)
SumRxTx(entries) ==
    IF entries = <<>> THEN 0
    ELSE entries[1].rx + entries[1].tx + SumRxTx(Tail(entries))

DefaultStats == [daily |-> 0, weekly |-> 0, monthly |-> 0]

\* the `stats` dict is updated in place, key after key; a KeyError is
\* caught by `except Exception: return stats`, which returns the dict as
\* it is at that moment
get_vnstat_usage(answer) ==
    IF answer.status # "data" THEN DefaultStats
    ELSE
      LET days   == answer.day
          months == answer.month
          n      == Len(days)
          last_7 == SubSeq(days, IF n > 7 THEN n - 6 ELSE 1, n)
          s1 == IF days # <<>>
                THEN [DefaultStats EXCEPT
                        !.daily = RoundGiB(days[n].rx + days[n].tx)]
                ELSE DefaultStats
          s2 == IF days # <<>>
                THEN [s1 EXCEPT !.weekly = RoundGiB(SumRxTx(last_7))]
                ELSE s1
          s3 == IF months # <<>>
                THEN [s2 EXCEPT !.monthly =
                        RoundGiB(months[Len(months)].rx + months[Len(months)].tx)]
                ELSE s2
      IN  IF days # <<>> /\ ~HasRxTx(days[n]) THEN DefaultStats
          ELSE IF \E i \in 1..Len(last_7) : ~HasRxTx(last_7[i]) THEN s1
          ELSE IF months # <<>> /\ ~HasRxTx(months[Len(months)]) THEN s2
          ELSE s3

CallGetVnstatUsage ==
    /\ pc = "get_vnstat"
    /\ \E answer \in VnstatAnswers :
          IF answer.status = "which_raises"
          THEN /\ Crash("get_vnstat_usage", "FileNotFoundError")
               /\ UNCHANGED <<result, ipAddress, bound, user_count, cpu_val,
                              svc_status, vn_stats, dl_mbps, sent>>
          ELSE /\ frame' = [fn |-> "get_vnstat_usage", answer |-> answer,
                            ret |-> get_vnstat_usage(answer)]
               /\ pc' = "bind_vnstat"
               /\ UNCHANGED <<result, ipAddress, bound, user_count, cpu_val,
                              svc_status, vn_stats, dl_mbps, sent, exit_code>>

BindVnStats ==
    /\ pc = "bind_vnstat"
    /\ vn_stats' = frame.ret
    /\ bound' = bound \cup {"vn_stats"}
    /\ frame' = NoFrame
    /\ pc' = "get_speed"
    /\ UNCHANGED <<result, ipAddress, user_count, cpu_val, svc_status, dl_mbps,
                   sent, exit_code>>

----------------------------------------------------------------------------
(* get_download_speed (lines 35-51) *)

\* the rx_bytes file of the interface at the moment it is opened
RxFiles ==
    {[exists |-> FALSE, readable |-> FALSE, content |-> <<>>],
     [exists |-> TRUE,  readable |-> FALSE, content |-> <<>>],
     [exists |-> TRUE,  readable |-> TRUE,  content |-> <<>>],
     [exists |-> TRUE,  readable |-> TRUE,  content |-> <<"0", "\n">>],
     [exists |-> TRUE,  readable |-> TRUE,
      content |-> <<"1", "2", "5", "0", "0", "0", "0", "\n">>]}

\* variant: an absent file reads as -1
get_rx_bytes_minus_one(file) ==
    IF ~file.exists THEN [raised |-> "none", val |-> 0 - 1]
    ELSE IF ~file.readable THEN [raised |-> "PermissionError", val |-> 0]
    ELSE int(file.content)

\* only FileNotFoundError is caught
get_rx_bytes(file) ==
    IF ~file.exists THEN [raised |-> "none", val |-> 0]
    ELSE IF ~file.readable THEN [raised |-> "PermissionError", val |-> 0]
    ELSE int(file.content)

\* round(((rx2 - rx1) * 8) / 1_000_000 / interval, 2), in hundredths
download_mbps(rx1, rx2, interval) ==
    RoundHalfEven((rx2 - rx1) * 8 * 100, 1000000 * interval)

ReadRx1 ==
    /\ pc = "get_speed"
    /\ \E file \in RxFiles :
          LET r == get_rx_bytes(file)
          IN  IF r.raised # "none"
              THEN /\ Crash("get_download_speed", r.raised)
                   /\ UNCHANGED <<result, ipAddress, bound, user_count, cpu_val,
                                  svc_status, vn_stats, dl_mbps, sent>>
              ELSE /\ frame' = [fn |-> "get_download_speed", step |-> 1,
                                file1 |-> file, rx1 |-> r.val,
                                file2 |-> file, rx2 |-> 0, ret |-> 0]
                   /\ pc' = "sleep"
                   /\ UNCHANGED <<result, ipAddress, bound, user_count, cpu_val,
                                  svc_status, vn_stats, dl_mbps, sent, exit_code>>

\* time.sleep(interval), the second read, and the computation
ReadRx2 ==
    /\ pc = "sleep"
    /\ \E file \in RxFiles :
          LET r == get_rx_bytes(file)
          IN  IF r.raised # "none"
              THEN /\ Crash("get_download_speed", r.raised)
                   /\ UNCHANGED <<result, ipAddress, bound, user_count, cpu_val,
                                  svc_status, vn_stats, dl_mbps, sent>>
              ELSE /\ frame' = [frame EXCEPT !.step = 2, !.file2 = file,
                                  !.rx2 = r.val,
                                  !.ret = download_mbps(frame.rx1, r.val, 1)]
                   /\ pc' = "bind_speed"
                   /\ UNCHANGED <<result, ipAddress, bound, user_count, cpu_val,
                                  svc_status, vn_stats, dl_mbps, sent, exit_code>>

BindDlMbps ==
    /\ pc = "bind_speed"
    /\ dl_mbps' = frame.ret
    /\ bound' = bound \cup {"dl_mbps"}
    /\ frame' = NoFrame
    /\ pc' = "send_users"
    /\ UNCHANGED <<result, ipAddress, user_count, cpu_val, svc_status, vn_stats,
                   sent, exit_code>>

----------------------------------------------------------------------------
(* Phase 2 of send_data (lines 157-197) *)

\* requests.post(url, timeout=10): a response with a status code, or an
\* exception (connection error, timeout)
PostOutcomes == {"200", "500", "exception"}

Url(route, args) == [base |-> API_BASE_URL, route |-> route, args |-> args]

\* variant: no try/except around the POST
Post_Propagates(name, url, next) ==
    \E outcome \in PostOutcomes :
       /\ sent' = Append(sent, [name |-> name, url |-> url, outcome |-> outcome])
       /\ IF outcome = "exception"
          THEN /\ Crash("send_data", "RequestException")
               /\ UNCHANGED <<result, ipAddress, bound, user_count, cpu_val,
                              svc_status, vn_stats, dl_mbps>>
          ELSE /\ pc' = next
               /\ UNCHANGED <<result, ipAddress, frame, bound, user_count,
                              cpu_val, svc_status, vn_stats, dl_mbps, exit_code>>

\* variant: a failed POST is attempted again
Post_Retries(name, url, next) ==
    \E outcome \in PostOutcomes :
       /\ sent' = Append(sent, [name |-> name, url |-> url, outcome |-> outcome])
       /\ pc' = IF outcome = "exception" /\ Len(sent) < 6 THEN pc ELSE next
       /\ UNCHANGED <<result, ipAddress, frame, bound, user_count, cpu_val,
                      svc_status, vn_stats, dl_mbps, exit_code>>

\* try: resp = requests.post(url, timeout=10); print(...)
\* except Exception as e: print(...)
Post(name, url, next) ==
    /\ \E outcome \in PostOutcomes :
          sent' = Append(sent, [name |-> name, url |-> url, outcome |-> outcome])
    /\ pc' = next
    /\ UNCHANGED <<result, ipAddress, frame, bound, user_count, cpu_val,
                   svc_status, vn_stats, dl_mbps, exit_code>>

SendUsers ==
    /\ pc = "send_users"
    /\ Post("users", Url("total-users", <<ipAddress, user_count>>), "send_cpu")

SendCpu ==
    /\ pc = "send_cpu"
    /\ Post("cpu", Url("cpu-usage", <<ipAddress, FloatStr(cpu_val)>>),
            "send_status")

SendStatus ==
    /\ pc = "send_status"
    /\ Post("status",
            Url("update-instance-status",
                <<ipAddress, OPENVPN, PLATFORM, svc_status>>),
            "send_speed")

SendSpeed ==
    /\ pc = "send_speed"
    /\ Post("speed", Url("server-speed", <<ipAddress, FloatStr(dl_mbps)>>),
            "send_history")

SendHistory ==
    /\ pc = "send_history"
    /\ Post("history",
            Url("historical-bandwidth",
                <<OPENVPN, ipAddress, FloatStr(vn_stats.daily),
                  FloatStr(vn_stats.weekly), FloatStr(vn_stats.monthly)>>),
            "return")

\* send_data returns, the interpreter exits normally
Exit ==
    /\ pc = "return"
    /\ pc' = "done"
    /\ exit_code' = 0
    /\ UNCHANGED <<result, ipAddress, frame, bound, user_count, cpu_val,
                   svc_status, vn_stats, dl_mbps, sent>>

Next ==
    \/ FetchPublicIp
    \/ CallGetOvpnUsers \/ BindUserCount
    \/ CallGetCpuUsage \/ BindCpuVal
    \/ CallCheckServiceStatus \/ BindSvcStatus
    \/ CallGetVnstatUsage \/ BindVnStats
    \/ ReadRx1 \/ ReadRx2 \/ BindDlMbps
    \/ SendUsers \/ SendCpu \/ SendStatus \/ SendSpeed \/ SendHistory
    \/ Exit

Spec == Init /\ [][Next]_vars
----------------------------------------------------------------------------
(* Properties *)

AllMetrics == {"user_count", "cpu_val", "svc_status", "vn_stats", "dl_mbps"}

PostOrder == <<"users", "cpu", "status", "speed", "history">>

Phase2Labels ==
    {"send_users", "send_cpu", "send_status", "send_speed", "send_history",
     "return"}

\* s is raw without its leading and trailing whitespace, s not empty
IsStripOf(raw, s) ==
    \E i, j \in 1..Len(raw) :
       /\ i <= j
       /\ s = SubSeq(raw, i, j)
       /\ raw[i] \notin Whitespace
       /\ raw[j] \notin Whitespace
       /\ \A k \in 1..Len(raw) : (k < i \/ k > j) => raw[k] \in Whitespace

\* the number a decimal literal with one or two fractional digits denotes,
\* in hundredths
FloatValue(s) ==
    LET neg  == s # <<>> /\ s[1] = "-"
        body == IF neg THEN Tail(s) ELSE s
        dot  == CHOOSE i \in 1..Len(body) : body[i] = "."
        frac == SubSeq(body, dot + 1, Len(body))
        h    == 100 * DigitsValue(SubSeq(body, 1, dot - 1))
                + (IF Len(frac) = 1 THEN 10 * DigitValue(frac[1])
                   ELSE DigitsValue(frac))
    IN  IF neg THEN 0 - h ELSE h

\* C1: a run never ends through an uncaught exception: whatever the data
\* sources answer, the process does not exit with status 1.
C1_NeverRaises == exit_code # 1

\* C2: the throughput get_download_speed returns is non-negative for every
\* pair of counter readings.
C2_ThroughputNonNegative == pc = "bind_speed" => frame.ret >= 0

\* C3: once the lookup is over ipAddress is never empty; it is "0.0.0.0"
\* when the command raised or printed nothing but whitespace, and the
\* stripped output otherwise.
C3_IpFallback ==
    pc # "fetch_ip" =>
       /\ ipAddress # <<>>
       /\ result.run = "raised" => ipAddress = FALLBACK_IP
       /\ (/\ result.run = "completed"
           /\ \A k \in 1..Len(result.stdout) : result.stdout[k] \in Whitespace)
             => ipAddress = FALLBACK_IP
       /\ (/\ result.run = "completed"
           /\ \E k \in 1..Len(result.stdout) : result.stdout[k] \notin Whitespace)
             => IsStripOf(result.stdout, ipAddress)

C3_Witness ==
    /\ pc = "get_users"
    /\ result.run = "completed"
    /\ result.stdout = <<" ", " ">>
    /\ ipAddress = FALLBACK_IP

\* C4: a read of an absent rx_bytes file yields 0, and get_download_speed
\* returns 0 when the file is absent at both reads.
C4_AbsentCounterIsZero ==
    /\ (pc = "sleep" /\ ~frame.file1.exists) => frame.rx1 = 0
    /\ (pc = "bind_speed" /\ ~frame.file2.exists) => frame.rx2 = 0
    /\ (pc = "bind_speed" /\ ~frame.file1.exists /\ ~frame.file2.exists)
          => frame.ret = 0

C4_Witness ==
    /\ pc = "bind_speed"
    /\ ~frame.file1.exists
    /\ ~frame.file2.exists
    /\ frame.ret = 0

\* vnstat could not be run, gave no usable JSON, or an entry that is read
\* lacks a key
VnstatFailed(answer) ==
    \/ answer.status # "data"
    \/ \E i \in 1..Len(answer.day) :
          i > Len(answer.day) - 7 /\ ~HasRxTx(answer.day[i])
    \/ answer.month # <<>> /\ ~HasRxTx(answer.month[Len(answer.month)])

\* C5: whenever get_vnstat_usage fails at any point, the daily, weekly and
\* monthly values it returns are all the default 0.0.
C5_VnstatFailureAllDefault ==
    (pc = "bind_vnstat" /\ VnstatFailed(frame.answer))
        => frame.ret = DefaultStats

\* C6: the POSTs are attempted in the fixed order users, CPU, status, speed,
\* history, and a run that has gathered all five metrics ends with all five
\* POSTs attempted, whichever of them raised.
C6_AllPostsAttemptedInOrder ==
    /\ Len(sent) <= Len(PostOrder)
    /\ \A i \in 1..Len(sent) : sent[i].name = PostOrder[i]
    /\ (exit_code # -1 /\ bound = AllMetrics) => Len(sent) = Len(PostOrder)

C6_Witness ==
    /\ pc = "done"
    /\ Len(sent) = 5
    /\ sent[1].outcome = "exception"
    /\ sent[4].outcome = "exception"
    /\ sent[5].outcome = "200"

\* C7: no endpoint receives more than one POST attempt in a run.
C7_NoRetry ==
    \A i, j \in 1..Len(sent) :
       (sent[i].name = sent[j].name \/ sent[i].url.route = sent[j].url.route)
          => i = j

C7_Witness ==
    /\ pc = "done"
    /\ sent[1].outcome = "500"
    /\ sent[2].outcome = "exception"
    /\ sent[3].outcome = "200"
    /\ Len(sent) = 5

\* C8: nothing is gathered before the public IP is resolved, and no POST
\* is made while a metric is still ungathered.
C8_LinearFlow ==
    /\ (bound # {} \/ frame.fn # "none") => result.run # "pending"
    /\ sent # <<>> => bound = AllMetrics
    /\ pc \in Phase2Labels => bound = AllMetrics

C8_Witness ==
    /\ pc = "send_cpu"
    /\ Len(sent) = 1
    /\ bound = AllMetrics
    /\ result.run = "completed"

\* C9: check_service_status returns "1" exactly when systemctl ran and its
\* output without surrounding whitespace is "active"; otherwise it returns
\* "0".
C9_ServiceStatus ==
    pc = "bind_status" =>
       /\ frame.ret \in {<<"0">>, <<"1">>}
       /\ frame.ret = <<"1">>
            <=> (~frame.run.raised /\ IsStripOf(frame.run.stdout, ACTIVE))

C9_Witness ==
    /\ pc = "bind_status"
    /\ frame.run.stdout = ACTIVE \o <<"\n">>
    /\ frame.ret = <<"1">>

UrlsEmbedGathered ==
    \A i \in 1..Len(sent) :
       LET u == sent[i].url
           n == sent[i].name
       IN  /\ u.base = API_BASE_URL
           /\ n = "users" =>
                /\ u.route = "total-users"
                /\ u.args = <<ipAddress, user_count>>
           /\ n = "cpu" =>
                /\ u.route = "cpu-usage"
                /\ Len(u.args) = 2
                /\ u.args[1] = ipAddress
                /\ FloatValue(u.args[2]) = cpu_val
           /\ n = "status" =>
                /\ u.route = "update-instance-status"
                /\ u.args = <<ipAddress, OPENVPN, PLATFORM, svc_status>>
           /\ n = "speed" =>
                /\ u.route = "server-speed"
                /\ Len(u.args) = 2
                /\ u.args[1] = ipAddress
                /\ FloatValue(u.args[2]) = dl_mbps
           /\ n = "history" =>
                /\ u.route = "historical-bandwidth"
                /\ Len(u.args) = 5
                /\ u.args[1] = OPENVPN
                /\ u.args[2] = ipAddress
                /\ FloatValue(u.args[3]) = vn_stats.daily
                /\ FloatValue(u.args[4]) = vn_stats.weekly
                /\ FloatValue(u.args[5]) = vn_stats.monthly

\* C10: every URL POSTed embeds the ipAddress resolved at start and the
\* value of its metric as gathered in phase 1, and no step of phase 2
\* changes ipAddress or a gathered value.
C10_SentIsGathered ==
    /\ []UrlsEmbedGathered
    /\ [][(pc \in Phase2Labels) => (gathered' = gathered)]_vars

C10_Witness ==
    /\ pc = "done"
    /\ Len(sent) = 5
    /\ sent[2].outcome = "exception"
    /\ ipAddress = <<"7", " ", "7">>
    /\ cpu_val = 3333
    /\ dl_mbps = 1000
====
